---- MODULE Spec2Model ----
(***************************************************************************)
(* Model of the Barretenberg backend adapter of noir_js                    *)
(* (tooling/noir_js_backend_barretenberg/src/index.ts): the proof buffer   *)
(* codec (split of the native proof buffer into ProofData, and its         *)
(* reconstruction), the hex codec it rests on, and the lifecycle of a      *)
(* BarretenbergBackend instance (lazy instantiate, operations, destroy),   *)
(* with one action per stretch of code between two awaits.                 *)
(*                                                                         *)
(* A JS string is a sequence of one-character strings; a Uint8Array is a   *)
(* sequence of numbers in 0..255; a BigInt is the sequence of its base-16  *)
(* digits, most significant first, without leading zeros (<<>> is 0).      *)
(***************************************************************************)
EXTENDS Integers, Sequences, FiniteSets, TLC

\* ------------------------------------------------------------------ bounds
\* largest witness index an ABI of the model names
MaxWitness == 10
\* longest witness range of one parameter
MaxRangeLen == 2
\* native proof buffers drawn per ABI (seeds 0..MaxSeed)
MaxSeed == 1
\* hex digits beyond 64 of the widest field value handed to hexToUint8Array
MaxExtraDigits == 3

\* ------------------------------------------------- constants of the program
numBytesInProofWithoutPublicInputs == 2144
publicInputSize == 32
\* padStart(64, '0')
sanitisedHexWidth == 64

\* ---------------------------------------------------------------- helpers
Min(a, b) == IF a < b THEN a ELSE b

\* Array.prototype.slice(from, to) on a 0-indexed array held as a 1-indexed
\* sequence: elements from..to-1, clamped to the array.
slice(arr, from, to) ==
    LET f == Min(from, Len(arr))
        t == Min(to, Len(arr))
    IN  IF t <= f THEN <<>> ELSE SubSeq(arr, f + 1, t)

HexChars == <<"0", "1", "2", "3", "4", "5", "6", "7",
              "8", "9", "a", "b", "c", "d", "e", "f">>

HexValue(ch) == (CHOOSE d \in 1..16 : HexChars[d] = ch) - 1

IsHexChar(ch) == \E d \in 1..16 : HexChars[d] = ch

\* Number.prototype.toString(16) of a byte: one or two digits, no padding
toString16(i) ==
    IF i < 16 THEN <<HexChars[i + 1]>>
    ELSE <<HexChars[(i \div 16) + 1], HexChars[(i % 16) + 1]>>

\* Array.prototype.join('') of an array of strings
RECURSIVE join(_)
join(strs) == IF strs = <<>> THEN <<>> ELSE Head(strs) \o join(Tail(strs))

\* index.ts: uint8ArrayToHex
uint8ArrayToHex(buffer) ==
    LET h(i) == LET s == toString16(i)
                IN  IF Len(s) % 2 = 1 THEN <<"0">> \o s ELSE s
        hex == [n \in 1..Len(buffer) |-> h(buffer[n])]
    IN  <<"0", "x">> \o join(hex)

\* BigInt(hex) for a string "0x" followed by at least one hex digit: the
\* digits of the value, leading zeros dropped.  Any other string is a
\* SyntaxError; an exception is the one-element sequence <<-1>>, which is no
\* digit sequence and no byte array.
Thrown == <<-1>>

RECURSIVE stripLeadingZeros(_)
stripLeadingZeros(digits) ==
    IF digits = <<>> THEN <<>>
    ELSE IF Head(digits) = 0 THEN stripLeadingZeros(Tail(digits))
    ELSE digits

BigInt(hex) ==
    IF /\ Len(hex) >= 3
       /\ hex[1] = "0" /\ hex[2] = "x"
       /\ \A n \in 3..Len(hex) : IsHexChar(hex[n])
    THEN stripLeadingZeros([n \in 1..(Len(hex) - 2) |-> HexValue(hex[n + 2])])
    ELSE Thrown

\* BigInt.prototype.toString(16)
bigIntToString16(v) ==
    IF v = <<>> THEN <<"0">> ELSE [n \in 1..Len(v) |-> HexChars[v[n] + 1]]

\* String.prototype.padStart(width, '0')
RECURSIVE padStart(_, _)
padStart(s, width) == IF Len(s) >= width THEN s ELSE padStart(<<"0">> \o s, width)

\* parseInt(s, 16) of a string of one or two hex digits, as a typed array
\* stores it (parseInt('') is NaN, stored as 0)
parseInt16(s) ==
    IF Len(s) = 0 THEN 0
    ELSE IF Len(s) = 1 THEN HexValue(s[1])
    ELSE 16 * HexValue(s[1]) + HexValue(s[2])

\* index.ts: hexToUint8Array.  len = sanitised_hex.length / 2 is a JS number
\* and may be a half: new Uint8Array(len) has floor(len) elements (ToIndex,
\* ES2017 on), the loop
\* runs while i < len (2 * i < length), and a store past the end of a typed
\* array is dropped.
\* new Uint8Array(n): n zero bytes
RECURSIVE newUint8Array(_)
newUint8Array(n) == IF n <= 0 THEN <<>> ELSE Append(newUint8Array(n - 1), 0)

RECURSIVE hexLoop(_, _, _, _)
hexLoop(sanitised_hex, u8, i, j) ==
    IF 2 * i < Len(sanitised_hex)
    THEN LET b == parseInt16(slice(sanitised_hex, j, j + 2))
             u8n == IF i + 1 <= Len(u8) THEN [u8 EXCEPT ![i + 1] = b] ELSE u8
         IN  hexLoop(sanitised_hex, u8n, i + 1, j + 2)
    ELSE u8

\* mutant: the padStart(64, '0') is left out
hexToUint8ArrayNoPad(hex) ==
    LET v == BigInt(hex)
    IN  IF v = Thrown THEN Thrown
        ELSE LET sanitised_hex == bigIntToString16(v)
             IN  hexLoop(sanitised_hex, newUint8Array(Len(sanitised_hex) \div 2), 0, 0)

\* mutant: the array always has 32 elements
hexToUint8ArrayFixed(hex) ==
    LET v == BigInt(hex)
    IN  IF v = Thrown THEN Thrown
        ELSE LET sanitised_hex == padStart(bigIntToString16(v), sanitisedHexWidth)
             IN  hexLoop(sanitised_hex, newUint8Array(publicInputSize), 0, 0)

hexToUint8Array(hex) ==
    LET v == BigInt(hex)
    IN  IF v = Thrown THEN Thrown
        ELSE LET sanitised_hex == padStart(bigIntToString16(v), sanitisedHexWidth)
                 u8 == newUint8Array(Len(sanitised_hex) \div 2)
             IN  hexLoop(sanitised_hex, u8, 0, 0)

\* ------------------------------------------------------ the proof codec
\* String(n) of a non-negative integer, as its decimal digits
RECURSIVE decimal(_)
decimal(n) == IF n < 10 THEN <<n>> ELSE decimal(n \div 10) \o <<n % 10>>

\* a < b in the order of Array.prototype.sort() without a comparator: the
\* elements are compared as strings, code unit by code unit
RECURSIVE stringLess(_, _)
stringLess(a, b) ==
    IF b = <<>> THEN FALSE
    ELSE IF a = <<>> THEN TRUE
    ELSE IF Head(a) # Head(b) THEN Head(a) < Head(b)
    ELSE stringLess(Tail(a), Tail(b))

defaultCompareLess(m, n) == stringLess(decimal(m), decimal(n))

\* Array.prototype.sort() (stable), by insertion
RECURSIVE insertSorted(_, _)
insertSorted(sorted, e) ==
    IF sorted = <<>> THEN <<e>>
    ELSE IF defaultCompareLess(e, Head(sorted)) THEN <<e>> \o sorted
    ELSE <<Head(sorted)>> \o insertSorted(Tail(sorted), e)

RECURSIVE sort(_)
sort(arr) ==
    IF arr = <<>> THEN <<>>
    ELSE insertSorted(sort(SubSeq(arr, 1, Len(arr) - 1)), arr[Len(arr)])

\* [...new Set(arr)]: the first occurrence of every element, in order
RECURSIVE uniq(_)
uniq(arr) ==
    IF arr = <<>> THEN <<>>
    ELSE LET init == uniq(SubSeq(arr, 1, Len(arr) - 1))
             e == arr[Len(arr)]
         IN  IF \E n \in 1..Len(init) : init[n] = e THEN init ELSE Append(init, e)

\* Array.prototype.flatMap over a sequence of sequences
RECURSIVE flat(_)
flat(seqs) == IF seqs = <<>> THEN <<>> ELSE Head(seqs) \o flat(Tail(seqs))

\* index.ts 106: abi.parameters.filter((param) => param.visibility === 'public')
RECURSIVE publicParameters(_)
publicParameters(parameters) ==
    IF parameters = <<>> THEN <<>>
    ELSE (IF Head(parameters).visibility = "public" THEN <<Head(parameters)>> ELSE <<>>)
         \o publicParameters(Tail(parameters))

\* index.ts 109: Array.from({ length: end - start }, (_, i) => start + i)
rangeWitnesses(witness_range) ==
    LET length == witness_range.end - witness_range.start
    IN  IF length <= 0 THEN <<>>
        ELSE [i \in 1..length |-> witness_range.start + i - 1]

\* index.ts 104-115: the witness indices generateProof pairs with the
\* public-input elements
publicInputWitnesses(abi) ==
    LET return_value_witnesses == abi.return_witnesses
        public_parameters == publicParameters(abi.parameters)
        ofParam(param) ==
            LET ranges == abi.param_witnesses[param.name]
            IN  flat([r \in 1..Len(ranges) |-> rangeWitnesses(ranges[r])])
        public_parameter_witnesses ==
            flat([p \in 1..Len(public_parameters) |-> ofParam(public_parameters[p])])
    IN  sort(uniq(public_parameter_witnesses \o return_value_witnesses))

\* A WitnessMap is a JS Map: its entries in insertion order.
\* Map.prototype.set
mapSet(map, key, value) ==
    IF \E n \in 1..Len(map) : map[n].key = key
    THEN [n \in 1..Len(map) |->
             IF map[n].key = key THEN [key |-> key, value |-> value] ELSE map[n]]
    ELSE Append(map, [key |-> key, value |-> value])

\* Map.prototype.get
mapGet(map, key) == map[CHOOSE n \in 1..Len(map) : map[n].key = key].value

\* [...map.keys()]
mapKeys(map) == [n \in 1..Len(map) |-> map[n].key]

\* index.ts 92-125: generateProof from the native buffer on.  Reading
\* flattenedPublicInputs past its end gives undefined, and uint8ArrayToHex
\* of undefined throws (ok = FALSE).
RECURSIVE chunks(_, _)
chunks(publicInputsConcatenated, i) ==
    IF i < Len(publicInputsConcatenated)
    THEN <<slice(publicInputsConcatenated, i, i + publicInputSize)>>
         \o chunks(publicInputsConcatenated, i + publicInputSize)
    ELSE <<>>

RECURSIVE buildWitnessMap(_, _, _)
buildWitnessMap(public_input_witnesses, flattenedPublicInputs, index) ==
    IF index = 0 THEN <<>>
    ELSE mapSet(buildWitnessMap(public_input_witnesses, flattenedPublicInputs, index - 1),
                public_input_witnesses[index],
                uint8ArrayToHex(flattenedPublicInputs[index]))

splitProof(abi, proofWithPublicInputs) ==
    LET splitIndex == Len(proofWithPublicInputs) - numBytesInProofWithoutPublicInputs
        publicInputsConcatenated == slice(proofWithPublicInputs, 0, splitIndex)
        flattenedPublicInputs == chunks(publicInputsConcatenated, 0)
        public_input_witnesses == publicInputWitnesses(abi)
    IN  IF Len(public_input_witnesses) > Len(flattenedPublicInputs)
        THEN [ok |-> FALSE, proof |-> <<>>, publicInputs |-> <<>>]
        ELSE [ok |-> TRUE,
              proof |-> slice(proofWithPublicInputs, splitIndex, Len(proofWithPublicInputs)),
              publicInputs |-> buildWitnessMap(public_input_witnesses, flattenedPublicInputs,
                                               Len(public_input_witnesses))]

\* index.ts: flattenUint8Arrays
flattenUint8Arrays(arrays) == flat(arrays)

\* mutant: the keys are sorted as numbers, sort((a, b) => a - b)
RECURSIVE insertNumeric(_, _)
insertNumeric(sorted, e) ==
    IF sorted = <<>> THEN <<e>>
    ELSE IF e < Head(sorted) THEN <<e>> \o sorted
    ELSE <<Head(sorted)>> \o insertNumeric(Tail(sorted), e)

RECURSIVE sortNumeric(_)
sortNumeric(arr) ==
    IF arr = <<>> THEN <<>>
    ELSE insertNumeric(sortNumeric(SubSeq(arr, 1, Len(arr) - 1)), arr[Len(arr)])

publicInputIndicesNumeric(proofData) == sortNumeric(mapKeys(proofData.publicInputs))

\* index.ts 208: the order in which reconstructProofWithPublicInputs
\* flattens the witness map
publicInputIndices(proofData) == sort(mapKeys(proofData.publicInputs))

\* index.ts: reconstructProofWithPublicInputs
reconstructProofWithPublicInputs(proofData) ==
    LET indices == publicInputIndices(proofData)
        flattenedPublicInputs ==
            [n \in 1..Len(indices) |-> hexToUint8Array(mapGet(proofData.publicInputs, indices[n]))]
        publicInputsConcatenated == flattenUint8Arrays(flattenedPublicInputs)
    IN  IF \E n \in 1..Len(indices) : flattenedPublicInputs[n] = Thrown
        THEN Thrown
        ELSE publicInputsConcatenated \o proofData.proof

\* ------------------------------------------------------------------ state
VARIABLES
    \* the codec's data
    abi,                    \* this.acirCircuit.abi
    proofWithPublicInputs,  \* the buffer acirCreateProof returned
    proofData,              \* the ProofData generateProof returned
    reconstructed,          \* the result of reconstructProofWithPublicInputs
    codecPc,                \* "start", "split", "reconstructed" or "threw"
    \* the hex codec's data
    fieldBytes,             \* a 32-byte field element
    fieldHex,               \* a hex string
    decoded,                \* the result of hexToUint8Array
    hexPc,                  \* "bytes", "wide", "encoded", "decoded", "reconstructed"
    \* the backend instance
    api,                    \* this.api: 0 (undefined) or a native instance
    acirComposer,           \* this.acirComposer: 0 (undefined) or a composer
    \* the native library
    instances,              \* instances[a]: the instance Barretenberg.new made
    composers,              \* composers[k]: the composer acirNewAcirComposer made
    \* the callers of the backend
    callers,                \* the callers that use the instance
    pc,                     \* pc[c]: the await caller c is suspended at
    op,                     \* op[c]: the operation caller c is in
    local,                  \* local[c]: instantiate's const api, and the
                            \* receiver and composer of c's pending native call
    opsLeft,                \* opsLeft[c]: operations caller c may still start
    outcome,                \* outcome[c]: how c's last operation ended
    \* history
    lastCall,               \* the native call issued last
    calls,                  \* calls[fn]: how often native fn was issued
    setupsCompleted,        \* how often instantiate reached this.api = api
    setupsRejected,         \* how often a native setup step of instantiate threw
    noopDestroys            \* how often destroy() returned without a native call

codecVars == <<abi, proofWithPublicInputs, proofData, reconstructed, codecPc>>
hexVars == <<fieldBytes, fieldHex, decoded, hexPc>>
backendVars == <<api, acirComposer, instances, composers>>
callerVars == <<callers, pc, op, local, opsLeft, outcome>>
historyVars == <<lastCall, calls, setupsCompleted, setupsRejected, noopDestroys>>
vars == <<codecVars, hexVars, backendVars, callerVars, historyVars>>

\* ------------------------------------------------------- inputs of the codec
NoProofData == [ok |-> FALSE, proof |-> <<>>, publicInputs |-> <<>>]

\* The ABIs of the model: two parameters x and y with adjacent witness
\* ranges, each public or private, and at most one return witness.
Visibilities == {"public", "private"}
Bases == {1, 8}

Abi(base, lx, ly, vx, vy, ret) ==
    [parameters |-> <<[name |-> "x", visibility |-> vx], [name |-> "y", visibility |-> vy]>>,
     param_witnesses |->
        [n \in {"x", "y"} |->
            IF n = "x" THEN <<[start |-> base, end |-> base + lx]>>
            ELSE <<[start |-> base + lx, end |-> base + lx + ly]>>],
     return_witnesses |-> ret]

Abis ==
    {Abi(base, lx, ly, vx, vy, ret) :
        base \in Bases, lx \in 0..MaxRangeLen, ly \in 0..MaxRangeLen,
        vx \in Visibilities, vy \in Visibilities,
        ret \in {<<>>} \cup {<<r>> : r \in 1..MaxWitness}}

\* the public witness indices of a circuit, as a set
publicWitnessSet(a) ==
    LET ofParam(n) ==
            IF a.parameters[n].visibility = "public"
            THEN UNION {a.param_witnesses[a.parameters[n].name][r].start ..
                        (a.param_witnesses[a.parameters[n].name][r].end - 1) :
                            r \in 1..Len(a.param_witnesses[a.parameters[n].name])}
            ELSE {}
    IN  UNION {ofParam(n) : n \in 1..Len(a.parameters)}
        \cup {a.return_witnesses[n] : n \in 1..Len(a.return_witnesses)}

\* 32-byte field elements: z leading zero bytes, then (stride * 37 * n + a) % 256
ByteSamples == {1, 15, 16, 255}
MaxStride == 1

FieldValue(z, stride, a) ==
    [n \in 1..publicInputSize |-> IF n <= z THEN 0 ELSE (stride * 37 * n + a) % 256]

FieldValues ==
    {FieldValue(z, stride, a) : z \in 0..publicInputSize, stride \in 0..MaxStride, a \in ByteSamples}

\* the elements a native proof buffer is made of: neighbours differ
FieldPatterns ==
    <<FieldValue(0, 1, 1), FieldValue(publicInputSize, 0, 1), FieldValue(31, 0, 1),
      FieldValue(0, 0, 255), FieldValue(1, 1, 15)>>

\* the native proof buffer of a circuit with k public inputs: k 32-byte
\* elements, then the proof of numBytesInProofWithoutPublicInputs bytes
NativeProof(k, seed) ==
    flat([i \in 1..k |-> FieldPatterns[((seed + i) % Len(FieldPatterns)) + 1]])
    \o [j \in 1..numBytesInProofWithoutPublicInputs |-> (7 * j + seed) % 256]

\* hex strings of n digits, none of them 0
WideHex(n, seed) == <<"0", "x">> \o [i \in 1..n |-> HexChars[((5 * i + seed) % 15) + 2]]

WideHexes ==
    {WideHex(n, seed) : n \in (sanitisedHexWidth + 1)..(sanitisedHexWidth + MaxExtraDigits),
                        seed \in 0..MaxSeed}

\* ----------------------------------------------------- construction values
Callers == {1, 2}

NoCall == [fn |-> "none", api |-> 0, composer |-> 0, thisApi |-> 0,
           provingKey |-> FALSE, verificationKey |-> FALSE, destroyed |-> FALSE]

NoLocal == [api |-> 0, onApi |-> 0, onComposer |-> 0]

\* index.ts 35-43: the native setup steps of instantiate, in order
SetupFns ==
    <<"Barretenberg.new", "acirGetCircuitSizes", "Crs.new", "commonInitSlabAllocator",
      "srsInitSrs", "acirNewAcirComposer", "acirInitProvingKey">>

SetupFnSet == {SetupFns[i] : i \in 1..Len(SetupFns)}

NativeFns ==
    {"Barretenberg.new", "acirGetCircuitSizes", "Crs.new", "commonInitSlabAllocator",
     "srsInitSrs", "acirNewAcirComposer", "acirInitProvingKey", "acirCreateProof",
     "acirSerializeProofIntoFields", "acirInitVerificationKey",
     "acirSerializeVerificationKeyIntoFields", "acirVerifyProof", "destroy"}

CodecUnused ==
    /\ abi = Abi(1, 0, 0, "private", "private", <<>>)
    /\ proofWithPublicInputs = <<>>
    /\ proofData = NoProofData
    /\ reconstructed = <<>>
    /\ codecPc = "start"

HexUnused ==
    /\ fieldBytes = <<>>
    /\ fieldHex = <<>>
    /\ decoded = <<>>
    /\ hexPc = "bytes"

\* index.ts 17-27: a constructed backend; nothing native exists yet
Constructed(cs, ops) ==
    /\ api = 0
    /\ acirComposer = 0
    /\ instances = <<>>
    /\ composers = <<>>
    /\ callers = cs
    /\ pc = [c \in Callers |-> "idle"]
    /\ op = [c \in Callers |-> "none"]
    /\ local = [c \in Callers |-> NoLocal]
    /\ opsLeft = [c \in Callers |-> IF c \in cs THEN ops[c] ELSE 0]
    /\ outcome = [c \in Callers |-> "none"]
    /\ lastCall = NoCall
    /\ calls = [fn \in NativeFns |-> 0]
    /\ setupsCompleted = 0
    /\ setupsRejected = 0
    /\ noopDestroys = 0

\* ------------------------------------------------ the proof codec, applied
InitCodec ==
    /\ abi \in Abis
    /\ \E seed \in 0..MaxSeed :
          proofWithPublicInputs = NativeProof(Cardinality(publicWitnessSet(abi)), seed)
    /\ proofData = NoProofData
    /\ reconstructed = <<>>
    /\ codecPc = "start"
    /\ HexUnused
    /\ Constructed({}, [c \in Callers |-> 0])

\* generateProof, from the buffer acirCreateProof returned on
CodecSplit ==
    /\ codecPc = "start"
    /\ proofData' = splitProof(abi, proofWithPublicInputs)
    /\ codecPc' = IF proofData'.ok THEN "split" ELSE "threw"
    /\ UNCHANGED <<abi, proofWithPublicInputs, reconstructed>>
    /\ UNCHANGED <<hexVars, backendVars, callerVars, historyVars>>

\* verifyFinalProof's first statement, on the ProofData generateProof returned
CodecReconstruct ==
    /\ codecPc = "split"
    /\ reconstructed' = reconstructProofWithPublicInputs(proofData)
    /\ codecPc' = "reconstructed"
    /\ UNCHANGED <<abi, proofWithPublicInputs, proofData>>
    /\ UNCHANGED <<hexVars, backendVars, callerVars, historyVars>>

NextCodec == CodecSplit \/ CodecReconstruct

SpecCodec == InitCodec /\ [][NextCodec]_vars

\* -------------------------------------------------- the hex codec, applied
InitHex ==
    /\ \/ /\ hexPc = "bytes"
          /\ fieldBytes \in FieldValues
          /\ fieldHex = <<>>
       \/ /\ hexPc = "hex"
          /\ fieldBytes = <<>>
          /\ fieldHex \in WideHexes
    /\ decoded = <<>>
    /\ CodecUnused
    /\ Constructed({}, [c \in Callers |-> 0])

\* generateProof's uint8ArrayToHex of one public-input element
HexEncode ==
    /\ hexPc = "bytes"
    /\ fieldHex' = uint8ArrayToHex(fieldBytes)
    /\ hexPc' = "hex"
    /\ UNCHANGED <<fieldBytes, decoded>>
    /\ UNCHANGED <<codecVars, backendVars, callerVars, historyVars>>

\* hexToUint8Array of the hex string
HexDecode ==
    /\ hexPc = "hex"
    /\ decoded' = hexToUint8Array(fieldHex)
    /\ hexPc' = "decoded"
    /\ UNCHANGED <<fieldBytes, fieldHex>>
    /\ UNCHANGED <<codecVars, backendVars, callerVars, historyVars>>

\* reconstructProofWithPublicInputs of a ProofData whose one public input
\* is the hex string
HexReconstruct ==
    /\ hexPc = "decoded"
    /\ proofData' = [ok |-> TRUE,
                     proof |-> NativeProof(0, 0),
                     publicInputs |-> mapSet(<<>>, 1, fieldHex)]
    /\ reconstructed' = reconstructProofWithPublicInputs(proofData')
    /\ hexPc' = "reconstructed"
    /\ UNCHANGED <<abi, proofWithPublicInputs, codecPc>>
    /\ UNCHANGED <<fieldBytes, fieldHex, decoded>>
    /\ UNCHANGED <<backendVars, callerVars, historyVars>>

NextHex == HexEncode \/ HexDecode \/ HexReconstruct

SpecHex == InitHex /\ [][NextHex]_vars

\* ------------------------------------------------- the backend's lifecycle
\* bounds: the operations the one caller of Spec starts, and the operations
\* the two callers of SpecConc start between them
MaxOps == 4
MaxConcOps == 2

\* what a native call finds when it is issued
CallRecord(fn, a, k, thisApi, comps, insts) ==
    [fn |-> fn, api |-> a, composer |-> k, thisApi |-> thisApi,
     provingKey |-> k # 0 /\ comps[k].provingKey,
     verificationKey |-> k # 0 /\ comps[k].verificationKey,
     destroyed |-> a # 0 /\ insts[a].destroyed]

\* caller c issues native call fn on instance a with composer k and is
\* suspended at its await; constApi is instantiate's const api
Issue(c, fn, constApi, a, k) ==
    /\ lastCall' = CallRecord(fn, a, k, api', composers', instances')
    /\ calls' = [calls EXCEPT ![fn] = @ + 1]
    /\ pc' = [pc EXCEPT ![c] = fn]
    /\ local' = [local EXCEPT ![c] = [api |-> constApi, onApi |-> a, onComposer |-> k]]

\* caller c's operation ends: its promise is resolved or rejected
Finish(c, how) ==
    /\ pc' = [pc EXCEPT ![c] = "idle"]
    /\ outcome' = [outcome EXCEPT ![c] = how]
    /\ local' = [local EXCEPT ![c] = NoLocal]

\* caller c starts operation o
Begin(c, o) ==
    /\ c \in callers
    /\ pc[c] = "idle"
    /\ opsLeft[c] > 0
    /\ opsLeft' = [opsLeft EXCEPT ![c] = @ - 1]
    /\ op' = [op EXCEPT ![c] = o]

\* mutant: the `if (!this.api)` guard is left out
EnterInstantiateUnguarded(c, then) ==
    /\ pc' = [pc EXCEPT ![c] = "import"]
    /\ UNCHANGED <<backendVars, local, historyVars>>

\* index.ts 30-34: instantiate up to its first await.  With this.api set it
\* returns at once and its caller goes on at `then`; else it awaits the import.
EnterInstantiate(c, then) ==
    /\ pc' = [pc EXCEPT ![c] = IF api # 0 THEN then ELSE "import"]
    /\ UNCHANGED <<backendVars, local, historyVars>>

\* instantiate(), called by the user
CallInstantiate(c) ==
    /\ Begin(c, "instantiate")
    /\ EnterInstantiate(c, "idle")
    /\ outcome' = [outcome EXCEPT ![c] = IF api # 0 THEN "resolved" ELSE @]
    /\ UNCHANGED <<callers, codecVars, hexVars>>

\* index.ts 83-84: generateProof up to `await this.instantiate()`
CallGenerateProof(c) ==
    /\ Begin(c, "generateProof")
    /\ EnterInstantiate(c, "instantiated")
    /\ UNCHANGED <<callers, outcome, codecVars, hexVars>>

\* index.ts 192-193: verifyProof up to `await this.instantiate()`
CallVerifyProof(c) ==
    /\ Begin(c, "verifyProof")
    /\ EnterInstantiate(c, "instantiated")
    /\ UNCHANGED <<callers, outcome, codecVars, hexVars>>

\* index.ts 145-153: generateIntermediateProofArtifacts up to
\* `await this.instantiate()`
CallGenerateIntermediateProofArtifacts(c) ==
    /\ Begin(c, "generateIntermediateProofArtifacts")
    /\ EnterInstantiate(c, "instantiated")
    /\ UNCHANGED <<callers, outcome, codecVars, hexVars>>

\* mutant: destroy without the `if (!this.api) return`; a call on undefined
\* throws
CallDestroyUnguarded(c) ==
    /\ Begin(c, "destroy")
    /\ UNCHANGED backendVars
    /\ IF api = 0
       THEN /\ Finish(c, "rejected")
            /\ UNCHANGED historyVars
       ELSE /\ Issue(c, "destroy", local[c].api, api, 0)
            /\ UNCHANGED <<setupsCompleted, setupsRejected, noopDestroys, outcome>>
    /\ UNCHANGED <<callers, codecVars, hexVars>>

\* index.ts 198-202: destroy up to its await
CallDestroy(c) ==
    /\ Begin(c, "destroy")
    /\ UNCHANGED backendVars
    /\ IF api = 0
       THEN /\ Finish(c, "resolved")
            /\ noopDestroys' = noopDestroys + 1
            /\ UNCHANGED <<lastCall, calls, setupsCompleted, setupsRejected>>
       ELSE /\ Issue(c, "destroy", local[c].api, api, 0)
            /\ UNCHANGED <<setupsCompleted, setupsRejected, noopDestroys, outcome>>
    /\ UNCHANGED <<callers, codecVars, hexVars>>

\* a step of caller c that resumes from the await of native call fn
Resumes(c, fn) == c \in callers /\ pc[c] = fn

\* index.ts 34-35: the import is done; Barretenberg.new is called
ResumeImport(c) ==
    /\ Resumes(c, "import")
    /\ UNCHANGED backendVars
    /\ Issue(c, "Barretenberg.new", 0, 0, 0)
    /\ UNCHANGED <<setupsCompleted, setupsRejected, noopDestroys>>
    /\ UNCHANGED <<callers, op, opsLeft, outcome, codecVars, hexVars>>

\* mutant: this.api is assigned as soon as Barretenberg.new has resolved
ResumeNewAssignsApi(c) ==
    /\ Resumes(c, "Barretenberg.new")
    /\ instances' = Append(instances, [destroyed |-> FALSE])
    /\ api' = Len(instances')
    /\ UNCHANGED <<acirComposer, composers>>
    /\ Issue(c, "acirGetCircuitSizes", Len(instances'), Len(instances'), 0)
    /\ UNCHANGED <<setupsCompleted, setupsRejected, noopDestroys>>
    /\ UNCHANGED <<callers, op, opsLeft, outcome, codecVars, hexVars>>

\* index.ts 35-37: Barretenberg.new gave the instance; acirGetCircuitSizes
ResumeNew(c) ==
    /\ Resumes(c, "Barretenberg.new")
    /\ instances' = Append(instances, [destroyed |-> FALSE])
    /\ UNCHANGED <<api, acirComposer, composers>>
    /\ Issue(c, "acirGetCircuitSizes", Len(instances'), Len(instances'), 0)
    /\ UNCHANGED <<setupsCompleted, setupsRejected, noopDestroys>>
    /\ UNCHANGED <<callers, op, opsLeft, outcome, codecVars, hexVars>>

\* index.ts 37-38: Crs.new(subgroupSize + 1)
ResumeCircuitSizes(c) ==
    /\ Resumes(c, "acirGetCircuitSizes")
    /\ UNCHANGED backendVars
    /\ Issue(c, "Crs.new", local[c].api, 0, 0)
    /\ UNCHANGED <<setupsCompleted, setupsRejected, noopDestroys>>
    /\ UNCHANGED <<callers, op, opsLeft, outcome, codecVars, hexVars>>

\* index.ts 38-39: api.commonInitSlabAllocator
ResumeCrs(c) ==
    /\ Resumes(c, "Crs.new")
    /\ UNCHANGED backendVars
    /\ Issue(c, "commonInitSlabAllocator", local[c].api, local[c].api, 0)
    /\ UNCHANGED <<setupsCompleted, setupsRejected, noopDestroys>>
    /\ UNCHANGED <<callers, op, opsLeft, outcome, codecVars, hexVars>>

\* index.ts 39-40: api.srsInitSrs
ResumeSlabAllocator(c) ==
    /\ Resumes(c, "commonInitSlabAllocator")
    /\ UNCHANGED backendVars
    /\ Issue(c, "srsInitSrs", local[c].api, local[c].api, 0)
    /\ UNCHANGED <<setupsCompleted, setupsRejected, noopDestroys>>
    /\ UNCHANGED <<callers, op, opsLeft, outcome, codecVars, hexVars>>

\* index.ts 40-42: api.acirNewAcirComposer
ResumeSrs(c) ==
    /\ Resumes(c, "srsInitSrs")
    /\ UNCHANGED backendVars
    /\ Issue(c, "acirNewAcirComposer", local[c].api, local[c].api, 0)
    /\ UNCHANGED <<setupsCompleted, setupsRejected, noopDestroys>>
    /\ UNCHANGED <<callers, op, opsLeft, outcome, codecVars, hexVars>>

\* index.ts 42-43: this.acirComposer is assigned the new composer, and
\* api.acirInitProvingKey is called on it
ResumeNewAcirComposer(c) ==
    /\ Resumes(c, "acirNewAcirComposer")
    /\ composers' = Append(composers, [owner |-> local[c].api,
                                       provingKey |-> FALSE, verificationKey |-> FALSE])
    /\ acirComposer' = Len(composers')
    /\ UNCHANGED <<api, instances>>
    /\ Issue(c, "acirInitProvingKey", local[c].api, local[c].api, acirComposer')
    /\ UNCHANGED <<setupsCompleted, setupsRejected, noopDestroys>>
    /\ UNCHANGED <<callers, op, opsLeft, outcome, codecVars, hexVars>>

\* index.ts 43-46: the proving key is built, this.api is assigned and
\* instantiate returns: to the user, or to the operation that awaits it
ResumeInitProvingKey(c) ==
    /\ Resumes(c, "acirInitProvingKey")
    /\ composers' = [composers EXCEPT ![local[c].onComposer].provingKey = TRUE]
    /\ api' = local[c].api
    /\ UNCHANGED <<acirComposer, instances>>
    /\ setupsCompleted' = setupsCompleted + 1
    /\ IF op[c] = "instantiate"
       THEN Finish(c, "resolved")
       ELSE /\ pc' = [pc EXCEPT ![c] = "instantiated"]
            /\ local' = [local EXCEPT ![c] = NoLocal]
            /\ UNCHANGED outcome
    /\ UNCHANGED <<lastCall, calls, setupsRejected, noopDestroys>>
    /\ UNCHANGED <<callers, op, opsLeft, codecVars, hexVars>>

\* the operation of caller c goes on after `await this.instantiate()`
Instantiated(c, o) == c \in callers /\ pc[c] = "instantiated" /\ op[c] = o

\* index.ts 85-90: this.api.acirCreateProof(this.acirComposer, ...)
ContinueGenerateProof(c) ==
    /\ Instantiated(c, "generateProof")
    /\ UNCHANGED backendVars
    /\ Issue(c, "acirCreateProof", 0, api, acirComposer)
    /\ UNCHANGED <<setupsCompleted, setupsRejected, noopDestroys>>
    /\ UNCHANGED <<callers, op, opsLeft, outcome, codecVars, hexVars>>

\* index.ts 92-125: the proof buffer is split (splitProof, which writes no
\* field of the instance) and returned
ResumeCreateProof(c) ==
    /\ Resumes(c, "acirCreateProof")
    /\ Finish(c, "resolved")
    /\ UNCHANGED <<backendVars, historyVars>>
    /\ UNCHANGED <<callers, op, opsLeft, codecVars, hexVars>>

\* mutant: verifyProof calls acirVerifyProof without acirInitVerificationKey
ContinueVerifyProofNoKey(c) ==
    /\ Instantiated(c, "verifyProof")
    /\ UNCHANGED backendVars
    /\ Issue(c, "acirVerifyProof", 0, api, acirComposer)
    /\ UNCHANGED <<setupsCompleted, setupsRejected, noopDestroys>>
    /\ UNCHANGED <<callers, op, opsLeft, outcome, codecVars, hexVars>>

\* index.ts 194: this.api.acirInitVerificationKey(this.acirComposer)
ContinueVerifyProof(c) ==
    /\ Instantiated(c, "verifyProof")
    /\ UNCHANGED backendVars
    /\ Issue(c, "acirInitVerificationKey", 0, api, acirComposer)
    /\ UNCHANGED <<setupsCompleted, setupsRejected, noopDestroys>>
    /\ UNCHANGED <<callers, op, opsLeft, outcome, codecVars, hexVars>>

\* index.ts 154-155: this.api.acirSerializeProofIntoFields
ContinueGenerateIntermediateProofArtifacts(c) ==
    /\ Instantiated(c, "generateIntermediateProofArtifacts")
    /\ UNCHANGED backendVars
    /\ Issue(c, "acirSerializeProofIntoFields", 0, api, acirComposer)
    /\ UNCHANGED <<setupsCompleted, setupsRejected, noopDestroys>>
    /\ UNCHANGED <<callers, op, opsLeft, outcome, codecVars, hexVars>>

\* index.ts 155-159: this.api.acirInitVerificationKey(this.acirComposer)
ResumeSerializeProofIntoFields(c) ==
    /\ Resumes(c, "acirSerializeProofIntoFields")
    /\ UNCHANGED backendVars
    /\ Issue(c, "acirInitVerificationKey", 0, api, acirComposer)
    /\ UNCHANGED <<setupsCompleted, setupsRejected, noopDestroys>>
    /\ UNCHANGED <<callers, op, opsLeft, outcome, codecVars, hexVars>>

\* index.ts 194-195 and 159-162: the verification key is built on the
\* composer the call was given; verifyProof calls acirVerifyProof,
\* generateIntermediateProofArtifacts acirSerializeVerificationKeyIntoFields
ResumeInitVerificationKey(c) ==
    /\ Resumes(c, "acirInitVerificationKey")
    /\ composers' = [composers EXCEPT ![local[c].onComposer].verificationKey = TRUE]
    /\ UNCHANGED <<api, acirComposer, instances>>
    /\ Issue(c, IF op[c] = "verifyProof" THEN "acirVerifyProof"
                ELSE "acirSerializeVerificationKeyIntoFields", 0, api, acirComposer)
    /\ UNCHANGED <<setupsCompleted, setupsRejected, noopDestroys>>
    /\ UNCHANGED <<callers, op, opsLeft, outcome, codecVars, hexVars>>

\* index.ts 195: verifyProof returns the verdict
ResumeVerifyProof(c) ==
    /\ Resumes(c, "acirVerifyProof")
    /\ Finish(c, "resolved")
    /\ UNCHANGED <<backendVars, historyVars>>
    /\ UNCHANGED <<callers, op, opsLeft, codecVars, hexVars>>

\* index.ts 162-168: generateIntermediateProofArtifacts returns the fields
ResumeSerializeVerificationKeyIntoFields(c) ==
    /\ Resumes(c, "acirSerializeVerificationKeyIntoFields")
    /\ Finish(c, "resolved")
    /\ UNCHANGED <<backendVars, historyVars>>
    /\ UNCHANGED <<callers, op, opsLeft, codecVars, hexVars>>

\* index.ts 202-203: the native instance is released; this.api stays set
ResumeDestroy(c) ==
    /\ Resumes(c, "destroy")
    /\ instances' = [instances EXCEPT ![local[c].onApi].destroyed = TRUE]
    /\ UNCHANGED <<api, acirComposer, composers>>
    /\ Finish(c, "resolved")
    /\ UNCHANGED historyVars
    /\ UNCHANGED <<callers, op, opsLeft, codecVars, hexVars>>

\* the native call caller c awaits throws: the exception leaves the
\* operation, which catches nothing
Reject(c) ==
    /\ c \in callers
    /\ pc[c] \in NativeFns
    /\ Finish(c, "rejected")
    /\ setupsRejected' = setupsRejected + (IF pc[c] \in SetupFnSet THEN 1 ELSE 0)
    /\ UNCHANGED <<backendVars, lastCall, calls, setupsCompleted, noopDestroys>>
    /\ UNCHANGED <<callers, op, opsLeft, codecVars, hexVars>>

Step(c) ==
    \/ CallInstantiate(c)
    \/ CallGenerateProof(c)
    \/ CallVerifyProof(c)
    \/ CallGenerateIntermediateProofArtifacts(c)
    \/ CallDestroy(c)
    \/ ResumeImport(c)
    \/ ResumeNew(c)
    \/ ResumeCircuitSizes(c)
    \/ ResumeCrs(c)
    \/ ResumeSlabAllocator(c)
    \/ ResumeSrs(c)
    \/ ResumeNewAcirComposer(c)
    \/ ResumeInitProvingKey(c)
    \/ ContinueGenerateProof(c)
    \/ ResumeCreateProof(c)
    \/ ContinueVerifyProof(c)
    \/ ContinueGenerateIntermediateProofArtifacts(c)
    \/ ResumeSerializeProofIntoFields(c)
    \/ ResumeInitVerificationKey(c)
    \/ ResumeVerifyProof(c)
    \/ ResumeSerializeVerificationKeyIntoFields(c)
    \/ ResumeDestroy(c)
    \/ Reject(c)

Next == \E c \in Callers : Step(c)

\* one caller, who awaits every operation before it starts the next
Init == CodecUnused /\ HexUnused /\ Constructed({1}, [c \in Callers |-> MaxOps])

Spec == Init /\ [][Next]_vars

\* two callers, neither of which waits for the other
InitConc ==
    /\ CodecUnused /\ HexUnused
    /\ Constructed(Callers, [c \in Callers |-> (MaxConcOps + 2 - c) \div 2])

SpecConc == InitConc /\ [][Next]_vars

\* a sequence of numbers in strictly ascending numeric order
StrictlyAscending(seq) == \A m, n \in 1..Len(seq) : m < n => seq[m] < seq[n]

\* C1: split-then-reconstruct round trip: for a native buffer of k 32-byte
\* public-input elements followed by the 2144-byte proof, and an ABI with
\* exactly k distinct public witness indices, reconstructing the ProofData
\* that generateProof split off gives back the buffer, byte for byte.
C1_RoundTrip ==
    (/\ codecPc = "reconstructed"
     /\ Len(proofWithPublicInputs) =
            publicInputSize * Cardinality(publicWitnessSet(abi))
            + numBytesInProofWithoutPublicInputs)
    => reconstructed = proofWithPublicInputs

\* C1 witness: a round trip over three public inputs, 8, 9 and 10, where the
\* sort puts 10 first
C1_Witness ==
    /\ codecPc = "reconstructed"
    /\ publicWitnessSet(abi) = {8, 9, 10}
    /\ mapKeys(proofData.publicInputs) = <<10, 8, 9>>
    /\ Len(proofData.proof) = numBytesInProofWithoutPublicInputs
    /\ reconstructed = proofWithPublicInputs

\* C2: the index sequence generateProof pairs with the public-input
\* elements, and the one reconstructProofWithPublicInputs flattens the
\* witness map in, are both in strictly ascending numeric order without a
\* repeated index.
C2_AscendingIndices ==
    codecPc \in {"split", "reconstructed"}
    => /\ StrictlyAscending(publicInputWitnesses(abi))
       /\ StrictlyAscending(publicInputIndices(proofData))

\* the value of a hex string is wider than 32 bytes
IsWide(hex) == Len(BigInt(hex)) > sanitisedHexWidth

\* the big-endian bytes of a value given by its hex digits
bytesOfDigits(digits) ==
    LET even == IF Len(digits) % 2 = 1 THEN <<0>> \o digits ELSE digits
    IN  [n \in 1..(Len(even) \div 2) |-> 16 * even[2 * n - 1] + even[2 * n]]

HexDecoded == hexPc \in {"decoded", "reconstructed"}

\* the digits of a value, zero-padded to width digits
RECURSIVE zeroPadded(_, _)
zeroPadded(digits, width) ==
    IF Len(digits) >= width THEN digits ELSE zeroPadded(<<0>> \o digits, width)

\* C5: hex codec round trip: for a 32-byte array v (leading zero bytes and
\* the all-zero array included), hexToUint8Array(uint8ArrayToHex(v)) is an
\* array of exactly 32 bytes equal to v, and the hex string holds the 64
\* digits of the value, zero-padded.
C5_HexRoundTrip ==
    (HexDecoded /\ fieldBytes # <<>>)
    => /\ decoded = fieldBytes
       /\ Len(decoded) = publicInputSize
       /\ Len(fieldHex) = 2 + sanitisedHexWidth
       /\ decoded = bytesOfDigits(zeroPadded(BigInt(fieldHex), sanitisedHexWidth))

\* C5 witness: the round trip of a value with 31 leading zero bytes
C5_Witness ==
    /\ hexPc = "decoded"
    /\ fieldBytes = FieldValue(31, 0, 15)
    /\ decoded = fieldBytes

\* C6 as claimed: for a hex value wider than 32 bytes hexToUint8Array raises
\* no error and returns exactly 32 bytes that are not the full encoding of
\* the value, so the element that reconstructProofWithPublicInputs places in
\* the public-input region is 32 bytes long.
C6_WideTruncatedTo32 ==
    (HexDecoded /\ fieldBytes = <<>> /\ IsWide(fieldHex))
    => /\ decoded # Thrown
       /\ Len(decoded) = publicInputSize
       /\ decoded # bytesOfDigits(BigInt(fieldHex))
       /\ hexPc = "reconstructed"
            => Len(reconstructed) - Len(proofData.proof) = publicInputSize

\* C6 amended: for a hex value of n > 64 hex digits hexToUint8Array raises
\* no error and returns floor(n / 2) bytes, the leading 2 * floor(n / 2)
\* digits of the value: for odd n the last digit is dropped and the result
\* is not the encoding of the value, for even n it is the full encoding and
\* longer than 32 bytes; the element placed in the public-input region is
\* floor(n / 2) bytes long, 32 only for n = 65.
C6_WideKeepsLeadingPairs ==
    (HexDecoded /\ fieldBytes = <<>> /\ IsWide(fieldHex))
    => LET digits == BigInt(fieldHex)
           n == Len(digits)
       IN  /\ decoded # Thrown
           /\ Len(decoded) = n \div 2
           /\ \A i \in 1..(n \div 2) : decoded[i] = 16 * digits[2 * i - 1] + digits[2 * i]
           /\ n % 2 = 1 => decoded # bytesOfDigits(digits)
           /\ n % 2 = 0 => decoded = bytesOfDigits(digits) /\ Len(decoded) > publicInputSize
           /\ Len(decoded) = publicInputSize <=> n = sanitisedHexWidth + 1
           /\ hexPc = "reconstructed"
                => Len(reconstructed) - Len(proofData.proof) = n \div 2

\* C6 witness: a value of 66 hex digits, decoded to 33 bytes and placed in
\* the public-input region
C6_Witness ==
    /\ hexPc = "reconstructed"
    /\ fieldBytes = <<>>
    /\ Len(BigInt(fieldHex)) = sanitisedHexWidth + 2
    /\ Len(decoded) = publicInputSize + 1
    /\ Len(reconstructed) = publicInputSize + 1 + numBytesInProofWithoutPublicInputs

\* ---------------------------------------------------- lifecycle claims
Idle(c) == pc[c] = "idle"

C4_DestroyUninstantiated ==
    [][\A c \in Callers :
        (api = 0 /\ CallDestroy(c))
        => /\ pc'[c] = "idle"
           /\ outcome'[c] = "resolved"
           /\ calls' = calls /\ lastCall' = lastCall
           /\ api' = 0 /\ acirComposer' = acirComposer
           /\ instances' = instances /\ composers' = composers]_vars

\* C4 witness: destroy() returned on the uninstantiated backend, and a later
\* operation instantiated it
C4_Witness ==
    /\ noopDestroys > 0
    /\ setupsRejected = 0
    /\ api # 0 /\ setupsCompleted = 1

C9_NoCallAfterDestroy == ~lastCall.destroyed

\* C10: when a native setup step of instantiate throws, the operation is
\* rejected and this.api stays unset; an operation started with this.api
\* unset is a destroy() that does nothing or runs the setup from its start,
\* so every setup step is issued at least as often as the step after it.
C10_FailedSetupLeavesUninitialized ==
    /\ [](/\ \A c \in callers :
                (Idle(c) /\ outcome[c] = "rejected" /\ lastCall.fn \in SetupFnSet)
                => api = 0
          /\ \A i \in 1..(Len(SetupFns) - 1) :
                calls[SetupFns[i]] >= calls[SetupFns[i + 1]]
          /\ calls["acirInitProvingKey"] >= setupsCompleted)
    /\ [][\A c \in callers :
            /\ (pc[c] \in SetupFnSet /\ Reject(c))
                 => outcome'[c] = "rejected" /\ api' = 0 /\ pc'[c] = "idle"
            /\ (api = 0 /\ Idle(c) /\ opsLeft'[c] < opsLeft[c])
                 => \/ pc'[c] = "import"
                    \/ op'[c] = "destroy" /\ pc'[c] = "idle" /\ calls' = calls]_vars

\* C10 witness: acirInitProvingKey threw, a destroy() did nothing, and the
\* next operation ran the whole setup again
C10_Witness ==
    /\ setupsRejected = 1 /\ noopDestroys = 1 /\ setupsCompleted = 1
    /\ calls["acirInitProvingKey"] = 2
    /\ api # 0

\* two native instances exist and the backend holds one of them
Orphaned == \E a \in 1..Len(instances) : a # api

\* C7: this.api is assigned only when a whole setup has completed, so until
\* then every caller passes the `!this.api` check; when two callers have both
\* run the setup, the backend holds the composer made last and the instance
\* whose setup completed last, and the other native instance is orphaned.
C7_ComposerRace ==
    /\ setupsCompleted = 0 => api = 0
    /\ setupsCompleted >= 2
         => /\ Len(instances) >= 2
            /\ acirComposer = Len(composers)
            /\ composers[acirComposer].owner # api \/ Orphaned

\* C7 witness: both callers ran the full setup and the backend is left with
\* a composer of the instance it did not store
C7_Witness ==
    /\ \A c \in callers : Idle(c) /\ outcome[c] = "resolved"
    /\ setupsCompleted = 2
    /\ composers[acirComposer].owner # api
    /\ composers[acirComposer].provingKey

====
